---- MODULE Spec2Model ----
(***************************************************************************)
(* Model of the notebook adr-complete-serial.ipynb: the LADR coefficient   *)
(* class, the Dirichlet and initial conditions of the physics cell, and    *)
(* the in-order run of the notebook's code cells around the external       *)
(* solver (NumericalSolution.NS_base / calculateSolution).                 *)
(*                                                                         *)
(* Floating point values are modelled by integers: 1.0 is 1, 0.0 is 0.     *)
(* Point coordinates are counted in mesh intervals, so that a length of    *)
(* L is an integer and a mesh node at the boundary compares equal to it.   *)
(***************************************************************************)
EXTENDS Integers, Sequences, FiniteSets, TLC

VARIABLES cell, status, p, n, so, written, ns, nSolve, failed, plotted,
          coef, L, c, selfPre, cPre, evaluated, bc, ic

vars == <<cell, status, p, n, so, written, ns, nSolve, failed, plotted,
          coef, L, c, selfPre, cPre, evaluated, bc, ic>>

notebookVars == <<cell, status, p, n, so, written, ns, nSolve, failed, plotted>>

(***************************************************************************)
(* Bounds                                                                  *)
(***************************************************************************)
\* number of quadrature points held by a coefficient dictionary c
NPts == 1
\* largest solution value u the framework stores in c[('u',0)]
MaxU == 1
\* largest value of a constructor input M, B[i], C, A[i][i]
MaxCoef == 1
\* largest time t handed to evaluate and uOfXT
MaxT == 1
\* mesh intervals per domain edge; coordinates range over -1..GridN+1
GridN == 2

Pts == 1..NPts
UVals == 0..MaxU
CoefVals == 0..MaxCoef
\* contents of c before evaluate is called: zero, or a value that no
\* coefficient and no product M*u, B[i]*u, C*u can equal
PriorVals == {0, MaxCoef * MaxU + 1}
Times == 0..MaxT
Coords == (0-1)..(GridN+1)
Points == Coords \X Coords
Flags == {0, 1}

(***************************************************************************)
(* class LADR                                                              *)
(***************************************************************************)
\* 2x2 matrices A: any diagonal, off-diagonal entries absent or present
Mats == {<<<<a, b>>, <<d, e>>>> : a \in CoefVals, b \in {0, MaxCoef},
                                   d \in {0, MaxCoef}, e \in CoefVals}

\* LADR.__init__: the object stores its four arguments
LADR(M, A, B, C) == [M |-> M, A |-> A, B |-> B, C |-> C]

LADRs == {LADR(M, A, B, C) : M \in CoefVals, A \in Mats,
                              B \in CoefVals \X CoefVals, C \in CoefVals}

\* evaluate with the second advection component computed from B[0]
evaluateSameB(self, t, d) ==
    [d EXCEPT !.m  = [q \in Pts |-> self.M * d.u[q]],
              !.dm = [q \in Pts |-> self.M],
              !.f  = [q \in Pts |-> <<self.B[1] * d.u[q], self.B[1] * d.u[q]>>],
              !.df = [q \in Pts |-> <<self.B[1], self.B[2]>>],
              !.a  = [q \in Pts |-> <<<<self.A[1][1], d.a[q][1][2]>>,
                                      <<d.a[q][2][1], self.A[2][2]>>>>],
              !.r  = [q \in Pts |-> self.C * d.u[q]],
              !.dr = [q \in Pts |-> self.C]]

\* evaluate with the mass added to the stored value instead of replacing it
evaluateAccumulate(self, t, d) ==
    [d EXCEPT !.m  = [q \in Pts |-> d.m[q] + self.M * d.u[q]],
              !.dm = [q \in Pts |-> self.M],
              !.f  = [q \in Pts |-> <<self.B[1] * d.u[q], self.B[2] * d.u[q]>>],
              !.df = [q \in Pts |-> <<self.B[1], self.B[2]>>],
              !.a  = [q \in Pts |-> <<<<self.A[1][1], d.a[q][1][2]>>,
                                      <<d.a[q][2][1], self.A[2][2]>>>>],
              !.r  = [q \in Pts |-> self.C * d.u[q]],
              !.dr = [q \in Pts |-> self.C]]

\* LADR.evaluate(self,t,c): the ten assignments, in order
evaluate(self, t, d) ==
    LET c1  == [d  EXCEPT !.m  = [q \in Pts |-> self.M * d.u[q]]]
        c2  == [c1 EXCEPT !.dm = [q \in Pts |-> self.M]]
        c3  == [c2 EXCEPT !.f  = [q \in Pts |-> <<self.B[1] * c2.u[q], c2.f[q][2]>>]]
        c4  == [c3 EXCEPT !.f  = [q \in Pts |-> <<c3.f[q][1], self.B[2] * c3.u[q]>>]]
        c5  == [c4 EXCEPT !.df = [q \in Pts |-> <<self.B[1], c4.df[q][2]>>]]
        c6  == [c5 EXCEPT !.df = [q \in Pts |-> <<c5.df[q][1], self.B[2]>>]]
        c7  == [c6 EXCEPT !.a  = [q \in Pts |-> <<<<self.A[1][1], c6.a[q][1][2]>>, c6.a[q][2]>>]]
        c8  == [c7 EXCEPT !.a  = [q \in Pts |-> <<c7.a[q][1], <<c7.a[q][2][1], self.A[2][2]>>>>]]
        c9  == [c8 EXCEPT !.r  = [q \in Pts |-> self.C * c8.u[q]]]
        c10 == [c9 EXCEPT !.dr = [q \in Pts |-> self.C]]
    IN  c10

\* a coefficient dictionary as the framework hands it over: a solution u,
\* a value g in the entries evaluate computes, off-diagonal entries
\* o[1], o[2] in the diffusion tensor
Dict(u, g, o) ==
    [u  |-> u,
     m  |-> [q \in Pts |-> g],
     dm |-> [q \in Pts |-> g],
     f  |-> [q \in Pts |-> <<g, g>>],
     df |-> [q \in Pts |-> <<g, g>>],
     a  |-> [q \in Pts |-> <<<<g, o[1]>>, <<o[2], g>>>>],
     r  |-> [q \in Pts |-> g],
     dr |-> [q \in Pts |-> g]]

Dicts == {Dict(u, g, o) : u \in [Pts -> UVals], g \in PriorVals,
                          o \in PriorVals \X PriorVals}

\* the dictionaries before any solution has been stored
NewDicts == {d \in Dicts : \A q \in Pts : d.u[q] = 0}

(***************************************************************************)
(* Physics cell: Dirichlet and initial conditions                          *)
(***************************************************************************)
\* lambda x,t: v
Lambda(v) == [xt \in Points \X Times |-> v]

\* the value None, and a returned function g, as results of getDBC
None == {}
Fn(g) == {g}

\* getDBC with the two tests in the other order
getDBCFarSideFirst(pL, x, flag) ==
    IF x[1] = pL[1] \/ x[2] = pL[2] THEN Fn(Lambda(0))
    ELSE IF x[1] = 0 \/ x[2] = 0 THEN Fn(Lambda(1))
    ELSE None

\* getDBC(x,flag); pL is the value of the global p.L at the time of the call
getDBC(pL, x, flag) ==
    IF x[1] = 0 \/ x[2] = 0 THEN Fn(Lambda(1))
    ELSE IF x[1] = pL[1] \/ x[2] = pL[2] THEN Fn(Lambda(0))
    ELSE None

\* uOfXT with strict comparisons
uOfXTStrict(x, t) ==
    IF x[1] < 0 \/ x[2] < 0 THEN 1 ELSE 0

\* IC.uOfXT(self,x,t)
uOfXT(x, t) ==
    IF x[1] <= 0 \/ x[2] <= 0 THEN 1 ELSE 0

\* the closed domain [0,L[0]] x [0,L[1]] and its boundary
Domain(pL) == {x \in Points : 0 <= x[1] /\ x[1] <= pL[1] /\ 0 <= x[2] /\ x[2] <= pL[2]}
Boundary(pL) == {x \in Domain(pL) : x[1] = 0 \/ x[1] = pL[1] \/ x[2] = 0 \/ x[2] = pL[2]}

(***************************************************************************)
(* The notebook's code cells                                               *)
(***************************************************************************)
\* the cells with NS_base constructed before the operator-splitting cell
CellOrderNSEarly == <<"imports", "LADR", "physics", "numerics", "ns",
                      "split", "solve", "post", "log">>

\* the code cells in the order of the file
CellOrder == <<"imports", "LADR", "physics", "numerics", "split",
               "ns", "solve", "post", "log">>

\* attributes the physics cell assigns on default_p
PAttrs == {"name", "nd", "L", "T", "coefficients", "dirichletConditions",
           "advectiveFluxBoundaryConditions", "diffusiveFluxBoundaryConditions",
           "periodicDirichletConditions", "initialConditions"}

\* attributes the numerics cell assigns on default_n
NAttrs == {"timeIntegration", "stepController", "runCFL", "femSpaces",
           "elementQuadrature", "elementBoundaryQuadrature", "subgridError",
           "shockCapturing", "numericalFluxType", "nnx", "nny", "tnList",
           "matrix", "multilevelLinearSolver", "l_atol_res",
           "parallelPartitioningType", "nLayersOfOverlapForParallel",
           "periodicDirichletConditions"}

\* attributes the operator-splitting cell assigns on default_so
SoAttrs == {"name", "sList", "tnList", "systemStepControllerType",
            "systemStepExact", "dt_system_fixed"}

\* p.L=(1.0,1.0), in mesh intervals
NotebookL == <<GridN, GridN>>

\* LADR(M=1.0, A=[[0.001,0.0],[0.0,0.001]], B=[2.0,1.0], C=0.0);
\* the entries of A are counted in thousandths
NotebookLADR == LADR(1, <<<<1, 0>>, <<0, 1>>>>, <<2, 1>>, 0)

\* a name that is not bound yet
Unbound == <<>>

\* the assertion left out
assertSkipped(flag) ==
    "running"

\* assert(not failed): the position after the statement
assertNotFailed(flag) ==
    IF flag = "False" THEN "running" ELSE "stopped"

NoCall == [called |-> FALSE, x |-> <<0, 0>>, arg |-> 0, res |-> None]

Current == IF cell \in 1..Len(CellOrder) THEN CellOrder[cell] ELSE "none"

Advance ==
    /\ cell' = cell + 1
    /\ status' = IF cell + 1 > Len(CellOrder) THEN "done" ELSE "running"

callbackVars == <<coef, L, c, selfPre, cPre, evaluated, bc, ic>>

\* %matplotlib inline; from proteus.iproteus import *
RunImports ==
    /\ status = "running" /\ Current = "imports"
    /\ Advance
    /\ UNCHANGED <<p, n, so, written, ns, nSolve, failed, plotted, callbackVars>>

\* class LADR(TransportCoefficients.TC_base): ...
RunLADR ==
    /\ status = "running" /\ Current = "LADR"
    /\ Advance
    /\ UNCHANGED <<p, n, so, written, ns, nSolve, failed, plotted, callbackVars>>

\* the physics cell
RunPhysics ==
    /\ status = "running" /\ Current = "physics"
    /\ p' = p \cup PAttrs
    /\ written' = written + Cardinality(PAttrs)
    /\ L' = NotebookL
    /\ coef' = NotebookLADR
    /\ Advance
    /\ UNCHANGED <<n, so, ns, nSolve, failed, plotted, c, selfPre, cPre, evaluated, bc, ic>>

\* the numerics cell
RunNumerics ==
    /\ status = "running" /\ Current = "numerics"
    /\ n' = n \cup NAttrs
    /\ written' = written + Cardinality(NAttrs)
    /\ Advance
    /\ UNCHANGED <<p, so, ns, nSolve, failed, plotted, callbackVars>>

\* the operator-splitting cell
RunSplit ==
    /\ status = "running" /\ Current = "split"
    /\ so' = so \cup SoAttrs
    /\ written' = written + Cardinality(SoAttrs)
    /\ Advance
    /\ UNCHANGED <<p, n, ns, nSolve, failed, plotted, callbackVars>>

\* ns = NumericalSolution.NS_base(so,[p],[n],so.sList,opts); the framework
\* allocates the coefficient dictionary, with contents of its own choosing
RunNS ==
    /\ status = "running" /\ Current = "ns"
    /\ ns' = <<[p |-> p, n |-> n, so |-> so, written |-> written]>>
    /\ \E d \in NewDicts : c' = d
    /\ Advance
    /\ UNCHANGED <<p, n, so, written, nSolve, failed, plotted, coef, L, selfPre, cPre, evaluated, bc, ic>>

\* failed = ns.calculateSolution('ladr_run1'): the call is entered
SolveCall ==
    /\ status = "running" /\ Current = "solve"
    /\ status' = "solving"
    /\ nSolve' = nSolve + 1
    /\ UNCHANGED <<cell, p, n, so, written, ns, failed, plotted, callbackVars>>

\* the framework stores a solution value v in c and calls
\* coefficients.evaluate(t,c)
FrameworkEvaluate(t, v) ==
    /\ status = "solving"
    /\ selfPre' = coef
    /\ cPre' = [c EXCEPT !.u = [q \in Pts |-> v]]
    /\ c' = evaluate(coef, t, [c EXCEPT !.u = [q \in Pts |-> v]])
    /\ evaluated' = TRUE
    /\ UNCHANGED <<notebookVars, coef, L, bc, ic>>

\* the framework asks for the Dirichlet condition at a mesh node
FrameworkGetDBC(x, flag) ==
    /\ status = "solving"
    /\ bc' = [called |-> TRUE, x |-> x, arg |-> flag, res |-> getDBC(L, x, flag)]
    /\ UNCHANGED <<notebookVars, coef, L, c, selfPre, cPre, evaluated, ic>>

\* the framework asks for the initial condition at a mesh node
FrameworkUOfXT(x, t) ==
    /\ status = "solving"
    /\ ic' = [called |-> TRUE, x |-> x, arg |-> t, res |-> uOfXT(x, t)]
    /\ UNCHANGED <<notebookVars, coef, L, c, selfPre, cPre, evaluated, bc>>

\* calculateSolution returns its flag; assert(not failed)
SolveReturn(flag) ==
    /\ status = "solving"
    /\ failed' = flag
    /\ status' = assertNotFailed(flag)
    /\ cell' = IF assertNotFailed(flag) = "running" THEN cell + 1 ELSE cell
    /\ UNCHANGED <<p, n, so, written, ns, nSolve, plotted, callbackVars>>

\* import pylab; read ns.modelList[0].levelModelList[-1]; plot
RunPost ==
    /\ status = "running" /\ Current = "post"
    /\ plotted' = TRUE
    /\ Advance
    /\ UNCHANGED <<p, n, so, written, ns, nSolve, failed, callbackVars>>

\* !cat proteus.log
RunLog ==
    /\ status = "running" /\ Current = "log"
    /\ Advance
    /\ UNCHANGED <<p, n, so, written, ns, nSolve, failed, plotted, callbackVars>>

\* a fresh kernel
Init ==
    /\ cell = 1 /\ status = "running"
    /\ p = {} /\ n = {} /\ so = {}
    /\ written = 0
    /\ ns = Unbound
    /\ nSolve = 0
    /\ failed = "unbound"
    /\ plotted = FALSE
    /\ coef = Unbound /\ L = Unbound
    /\ c = Unbound /\ selfPre = Unbound /\ cPre = Unbound
    /\ evaluated = FALSE
    /\ bc = NoCall /\ ic = NoCall

Next ==
    \/ RunImports
    \/ RunLADR
    \/ RunPhysics
    \/ RunNumerics
    \/ RunSplit
    \/ RunNS
    \/ SolveCall
    \/ \E t \in Times, v \in UVals : FrameworkEvaluate(t, v)
    \/ \E x \in Domain(NotebookL), flag \in Flags : FrameworkGetDBC(x, flag)
    \/ \E x \in Domain(NotebookL) : FrameworkUOfXT(x, 0)
    \/ \E flag \in {"True", "False"} : SolveReturn(flag)
    \/ RunPost
    \/ RunLog

Spec == Init /\ [][Next]_vars

(***************************************************************************)
(* The LADR class on its own: any constructor inputs, any dictionary       *)
(***************************************************************************)
\* coefficients.evaluate(t,c)
CallEvaluate(t) ==
    /\ selfPre' = coef
    /\ cPre' = c
    /\ c' = evaluate(coef, t, c)
    /\ evaluated' = TRUE
    /\ UNCHANGED <<notebookVars, coef, L, bc, ic>>

InitLADR ==
    /\ cell = Len(CellOrder) + 1 /\ status = "unit"
    /\ p = {} /\ n = {} /\ so = {}
    /\ written = 0
    /\ ns = Unbound
    /\ nSolve = 0
    /\ failed = "unbound"
    /\ plotted = FALSE
    /\ coef \in LADRs
    /\ L = Unbound
    /\ c \in Dicts
    /\ selfPre = coef /\ cPre = c
    /\ evaluated = FALSE
    /\ bc = NoCall /\ ic = NoCall

NextLADR ==
    \E t \in Times : CallEvaluate(t)

SpecLADR == InitLADR /\ [][NextLADR]_vars

(***************************************************************************)
(* The boundary and initial conditions on their own: any L, any point      *)
(***************************************************************************)
CallGetDBC(x, flag) ==
    /\ bc' = [called |-> TRUE, x |-> x, arg |-> flag, res |-> getDBC(L, x, flag)]
    /\ UNCHANGED <<notebookVars, coef, L, c, selfPre, cPre, evaluated, ic>>

CallUOfXT(x, t) ==
    /\ ic' = [called |-> TRUE, x |-> x, arg |-> t, res |-> uOfXT(x, t)]
    /\ UNCHANGED <<notebookVars, coef, L, c, selfPre, cPre, evaluated, bc>>

InitBC ==
    /\ cell = Len(CellOrder) + 1 /\ status = "unit"
    /\ p = {} /\ n = {} /\ so = {}
    /\ written = 0
    /\ ns = Unbound
    /\ nSolve = 0
    /\ failed = "unbound"
    /\ plotted = FALSE
    /\ coef = Unbound
    /\ L \in (1..GridN) \X (1..GridN)
    /\ c = Unbound /\ selfPre = Unbound /\ cPre = Unbound
    /\ evaluated = FALSE
    /\ bc = NoCall /\ ic = NoCall

NextBC ==
    \/ \E x \in Points, flag \in Flags : CallGetDBC(x, flag)
    \/ \E x \in Points, t \in Times : CallUOfXT(x, t)

SpecBC == InitBC /\ [][NextBC]_vars

(***************************************************************************)
(* Properties                                                              *)
(***************************************************************************)
SolveIdx == CHOOSE i \in 1..Len(CellOrder) : CellOrder[i] = "solve"

\* C1: post-processing is reached only if calculateSolution returned a
\* false flag; when the flag is true the run is stopped at the assertion,
\* calculateSolution has been called once (no retry) and nothing was plotted
C1_AssertGuardsPost ==
    /\ (cell > SolveIdx \/ plotted) => failed = "False"
    /\ failed = "True" =>
          /\ status = "stopped"
          /\ cell = SolveIdx
          /\ nSolve = 1
          /\ ~plotted

C1_Witness ==
    status = "stopped" /\ failed = "True" /\ nSolve = 1

C1_WitnessPost ==
    plotted /\ failed = "False"

\* C2: in a run of the cells in order calculateSolution is called once
\* (never twice, and once when the run is complete), only with NS_base
\* constructed, and no cell runs while the call is in progress; NS_base is
\* constructed with p, n and so fully populated, and no configuration
\* value is written after the construction
C2_SolveOnceAfterSetup ==
    /\ nSolve <= 1
    /\ status = "done" => nSolve = 1
    /\ nSolve >= 1 => Len(ns) = 1
    /\ status = "solving" => Current = "solve"
    /\ Len(ns) = 1 =>
          /\ ns[1].p = PAttrs /\ ns[1].n = NAttrs /\ ns[1].so = SoAttrs
          /\ p = ns[1].p /\ n = ns[1].n /\ so = ns[1].so
          /\ written = ns[1].written

C2_Witness ==
    status = "done" /\ nSolve = 1 /\ Len(ns) = 1

\* C3: after evaluate(t,c) the coefficients are m = M*u, f = (B[0]*u, B[1]*u),
\* r = C*u, dm = M, df = (B[0], B[1]), dr = C at every point, for the u that
\* was stored in c, and every other t gives the same result
C3_LinearForms ==
    evaluated =>
        /\ \A q \in Pts :
              /\ c.m[q] = coef.M * cPre.u[q]
              /\ c.f[q] = <<coef.B[1] * cPre.u[q], coef.B[2] * cPre.u[q]>>
              /\ c.r[q] = coef.C * cPre.u[q]
              /\ c.dm[q] = coef.M
              /\ c.df[q] = <<coef.B[1], coef.B[2]>>
              /\ c.dr[q] = coef.C
        /\ \A t \in Times : evaluate(coef, t, cPre) = c

C3_Witness ==
    /\ evaluated
    /\ coef.B[1] # coef.B[2]
    /\ \E q \in Pts : cPre.u[q] > 0 /\ c.f[q] # cPre.f[q] /\ c.f[q][1] # c.f[q][2]

\* C4: after evaluate(t,c) the diffusion tensor equals A in all four
\* entries at every point
C4_DiffusionIsA ==
    evaluated => \A q \in Pts : c.a[q] = coef.A

\* C5: getDBC depends on the coordinates only; on x[0]==0 or x[1]==0 it
\* returns a function that is 1 everywhere, otherwise on x[0]==L[0] or
\* x[1]==L[1] a function that is 0 everywhere, otherwise None; the corners
\* (0,L[1]) and (L[0],0) get 1, and a boundary point gets exactly one value
C5_DirichletClassification ==
    bc.called =>
        LET x == bc.x
            near == x[1] = 0 \/ x[2] = 0
            far == x[1] = L[1] \/ x[2] = L[2]
        IN  /\ \A flag \in Flags : getDBC(L, x, flag) = bc.res
            /\ near => /\ bc.res # None
                       /\ \A g \in bc.res : \A xt \in Points \X Times : g[xt] = 1
            /\ (~near /\ far) => /\ bc.res # None
                                 /\ \A g \in bc.res : \A xt \in Points \X Times : g[xt] = 0
            /\ (~near /\ ~far) => bc.res = None
            /\ x \in {<<0, L[2]>>, <<L[1], 0>>} => \A g \in bc.res : g[<<x, 0>>] = 1
            /\ x \in Boundary(L) =>
                  Cardinality({g[<<x, t>>] : g \in bc.res, t \in Times}) = 1

C5_Witness ==
    bc.called /\ bc.x = <<0, L[2]>> /\ bc.res = Fn(Lambda(1))

\* C6: at a point of the closed domain where getDBC returns a function g,
\* uOfXT(x,0) equals g(x,0); where getDBC returns None, uOfXT(x,0) is 0
C6_InitialMatchesDirichlet ==
    (bc.called /\ ic.called /\ ic.x = bc.x /\ ic.arg = 0 /\ bc.x \in Domain(L)) =>
        /\ \A g \in bc.res : ic.res = g[<<bc.x, 0>>]
        /\ bc.res = None => ic.res = 0

C6_Witness ==
    /\ bc.called /\ ic.called /\ ic.x = bc.x /\ ic.arg = 0
    /\ bc.x \in Boundary(L) /\ bc.x[1] = 0 /\ bc.x[2] = L[2]
    /\ ic.res = 1

\* outside the closed domain the two conditions can differ
C6_OutsideDomainToo ==
    (bc.called /\ ic.called /\ ic.x = bc.x /\ ic.arg = 0) =>
        /\ \A g \in bc.res : ic.res = g[<<bc.x, 0>>]
        /\ bc.res = None => ic.res = 0

====
